---- MODULE Spec2Model ----
(***************************************************************************)
(* TermChat: the credential store (.env file and process environment),     *)
(* the command dispatcher, the chat loop and the multi-provider response   *)
(* adapter, as a state machine.                                            *)
(*                                                                         *)
(* Two specifications:                                                     *)
(*   Spec        one interactive session: startup (first-run setup or a    *)
(*               configured start) followed by the chat loop;              *)
(*   AdapterSpec UniversalLLMClient.get_response applied to every provider *)
(*               of the registry, every bounded transcript and every       *)
(*               bounded HTTP response.                                    *)
(***************************************************************************)
EXTENDS Integers, Sequences, FiniteSets, TLC

VARIABLES
    pc,               \* "start", "loop" (Prompt.ask of the chat loop), "done" (break), "abort" (sys.exit(1)), "adapter"
    env_file_exists,  \* os.path.exists(env_path)
    env_file,         \* the KEY=value lines of the .env file: key -> value, NoVal when the key has no line
    os_environ,       \* the process environment: key -> value, NoVal when unset
    client,           \* main's client: a UniversalLLMClient, or NoClient
    chat_history,     \* main's chat_history: sequence of [role, content]
    http,             \* the HTTP exchange made for the last input line: NoHttp when it made none
    outcome,          \* what the adapter call of the last input line returned or raised
    last              \* what the last input line (or startup) was and which path it took

vars == <<pc, env_file_exists, env_file, os_environ, client, chat_history, http, outcome, last>>

-----------------------------------------------------------------------------
(* Bounds of the model *)

\* the setup and /addapi menus offer the first MaxProv providers of the registry
MaxProv == 2
\* a chat turn gets a reply only while the transcript holds fewer than MaxTurns turns
MaxTurns == 2
\* transcripts handed to the adapter in AdapterSpec have at most MaxLen messages
MaxLen == 3
\* message bodies of the transcripts shown by /history in HistorySpec have at most MaxBody characters
MaxBody == 150

-----------------------------------------------------------------------------
(* Provider registry *)

\* a missing key: os.getenv() returning None, a key with no line in the file
NoVal == "<unset>"

\* Python truthiness of an optional string
Truthy(v) == v # NoVal /\ v # ""

\* keys of LLM_PROVIDERS in dict order
ProviderIds == <<"1", "2", "3", "4", "5", "6", "7", "8">>

\* An environment key is the pair <<stem, suffix>>: "GOOGLE_API_KEY" is <<"GOOGLE", "_API_KEY">>.
LLM_PROVIDERS ==
    [id \in {ProviderIds[i] : i \in 1..Len(ProviderIds)} |->
        CASE id = "1" -> [name |-> "Google (Gemini)", env_key |-> <<"GOOGLE", "_API_KEY">>,
                          api_url |-> "https://generativelanguage.googleapis.com/v1beta/models/",
                          model |-> "gemini-2.5-pro"]
          [] id = "2" -> [name |-> "OpenRouter", env_key |-> <<"OPENROUTER", "_API_KEY">>,
                          api_url |-> "https://openrouter.ai/api/v1/chat/completions",
                          model |-> "openai/gpt-oss-20b:free"]
          [] id = "3" -> [name |-> "OpenAI", env_key |-> <<"OPENAI", "_API_KEY">>,
                          api_url |-> "https://api.openai.com/v1/chat/completions",
                          model |-> "gpt-3.5-turbo"]
          [] id = "4" -> [name |-> "Anthropic (Claude)", env_key |-> <<"ANTHROPIC", "_API_KEY">>,
                          api_url |-> "https://api.anthropic.com/v1/messages",
                          model |-> "claude-3-sonnet-20240229"]
          [] id = "5" -> [name |-> "xAI (Grok)", env_key |-> <<"XAI", "_API_KEY">>,
                          api_url |-> "https://api.x.ai/v1/chat/completions",
                          model |-> "grok-beta"]
          [] id = "6" -> [name |-> "DeepSeek", env_key |-> <<"DEEPSEEK", "_API_KEY">>,
                          api_url |-> "https://api.deepseek.com/v1/chat/completions",
                          model |-> "deepseek-chat"]
          [] id = "7" -> [name |-> "Qwen", env_key |-> <<"QWEN", "_API_KEY">>,
                          api_url |-> "https://dashscope.aliyuncs.com/api/v1/services/aigc/text-generation/generation",
                          model |-> "qwen-turbo"]
          [] OTHER    -> [name |-> "HuggingFace", env_key |-> <<"HUGGINGFACE", "_API_KEY">>,
                          api_url |-> "https://api-inference.huggingface.co/models/",
                          model |-> "mistralai/Mistral-7B-Instruct-v0.2"]]

\* env_key.replace('_API_KEY', '_MODEL')
ModelKey(env_key) == IF env_key[2] = "_API_KEY" THEN <<env_key[1], "_MODEL">> ELSE env_key

ACTIVE_PROVIDER == <<"ACTIVE_PROVIDER", "">>
ACTIVE_PROVIDER_NAME == <<"ACTIVE_PROVIDER_NAME", "">>

Keys ==
    {LLM_PROVIDERS[id].env_key : id \in DOMAIN LLM_PROVIDERS}
    \cup {ModelKey(LLM_PROVIDERS[id].env_key) : id \in DOMAIN LLM_PROVIDERS}
    \cup {ACTIVE_PROVIDER, ACTIVE_PROVIDER_NAME}

\* the providers the menus of this model offer
Offered == {ProviderIds[i] : i \in 1..MaxProv}

-----------------------------------------------------------------------------
(* python-dotenv as EnvManager uses it *)

Unset == [k \in Keys |-> NoVal]

\* load_dotenv: a key of the file is copied into the environment when it is
\* not set there yet, or always with override=True; nothing is ever removed.
load_dotenv(exists, file, environ, override) ==
    IF ~exists THEN environ
    ELSE [k \in Keys |->
            IF file[k] # NoVal /\ (override \/ environ[k] = NoVal) THEN file[k] ELSE environ[k]]

\* set_key writes the file only
set_key(file, k, v) == [file EXCEPT ![k] = v]

\* unset_key removes the line from the file only (a missing key is a warning, not an error)
unset_key(file, k) == [file EXCEPT ![k] = NoVal]

-----------------------------------------------------------------------------
(* EnvManager *)

NoProvider ==
    [valid |-> FALSE, id |-> "", name |-> "", env_key |-> <<"", "">>,
     api_url |-> "", model |-> "", api_key |-> NoVal]

\* get_active_provider: reads the process environment, never the file
get_active_provider(environ) ==
    LET active_id == environ[ACTIVE_PROVIDER] IN
    IF ~Truthy(active_id) \/ active_id \notin DOMAIN LLM_PROVIDERS THEN NoProvider
    ELSE LET provider == LLM_PROVIDERS[active_id]
             api_key == environ[provider.env_key]
             saved_model == environ[ModelKey(provider.env_key)]
         IN  IF Truthy(api_key)
             THEN [valid |-> TRUE, id |-> active_id, name |-> provider.name,
                   env_key |-> provider.env_key, api_url |-> provider.api_url,
                   model |-> IF Truthy(saved_model) THEN saved_model ELSE provider.model,
                   api_key |-> api_key]
             ELSE NoProvider

\* _get_saved_providers: display number -> provider id, in registry order,
\* for the providers whose credential is set in the process environment
_get_saved_providers(environ) ==
    SelectSeq(ProviderIds, LAMBDA id : Truthy(environ[LLM_PROVIDERS[id].env_key]))

\* check_env_exists that looks at the file's existence only
check_env_exists_fileonly(exists, environ) == exists

\* check_env_exists, after EnvManager.__init__ has loaded the file
check_env_exists(exists, environ) == exists /\ get_active_provider(environ).valid

-----------------------------------------------------------------------------
(* UniversalLLMClient: construction and headers *)

NoClient == [present |-> FALSE, provider_name |-> "", api_key |-> "", base_url |-> "", model |-> ""]

\* `sub in provider_name` for the four substrings the client tests, over the names of the registry
Contains(sub, provider_name) ==
    <<sub, provider_name>> \in {<<"Google", "Google (Gemini)">>, <<"OpenRouter", "OpenRouter">>,
                                <<"Anthropic", "Anthropic (Claude)">>, <<"HuggingFace", "HuggingFace">>}

\* UniversalLLMClient.__init__
UniversalLLMClient(provider_config) ==
    [present |-> TRUE, provider_name |-> provider_config.name, api_key |-> provider_config.api_key,
     base_url |-> provider_config.api_url, model |-> provider_config.model]

\* _setup_headers with every provider given the default bearer headers
_setup_headers_default(c) ==
    {<<"Authorization", "Bearer " \o c.api_key>>, <<"Content-Type", "application/json">>}

\* _setup_headers: the header dict as a set of <<name, value>> pairs
_setup_headers(c) ==
    IF Contains("OpenRouter", c.provider_name)
    THEN {<<"Authorization", "Bearer " \o c.api_key>>, <<"Content-Type", "application/json">>,
          <<"HTTP-Referer", "https://github.com/termchat">>, <<"X-Title", "TermChat">>}
    ELSE IF Contains("Anthropic", c.provider_name)
    THEN {<<"x-api-key", c.api_key>>, <<"Content-Type", "application/json">>,
          <<"anthropic-version", "2023-06-01">>}
    ELSE {<<"Authorization", "Bearer " \o c.api_key>>, <<"Content-Type", "application/json">>}

\* the branch get_response takes
Family(c) ==
    IF Contains("Anthropic", c.provider_name) THEN "anthropic"
    ELSE IF Contains("Google", c.provider_name) THEN "google"
    ELSE IF Contains("HuggingFace", c.provider_name) THEN "huggingface"
    ELSE "openai"

-----------------------------------------------------------------------------
(* Request construction *)

RECURSIVE Join(_, _)
\* sep.join(strings)
Join(strings, sep) ==
    IF Len(strings) = 0 THEN ""
    ELSE IF Len(strings) = 1 THEN strings[1]
    ELSE strings[1] \o sep \o Join(Tail(strings), sep)

\* max_tokens of the Anthropic payload
AnthropicMaxTokens == 4096
\* max_new_tokens of the HuggingFace payload
HFMaxNewTokens == 500

\* payload of _get_openai_compatible_response
OpenAIPayload(c, messages) == [model |-> c.model, messages |-> messages]

RECURSIVE AnthropicSystem(_, _)
\* the loop of _get_anthropic_response: system_message is overwritten by every system message
AnthropicSystem(messages, system_message) ==
    IF Len(messages) = 0 THEN system_message
    ELSE AnthropicSystem(Tail(messages),
                         IF Head(messages).role = "system" THEN Head(messages).content
                         ELSE system_message)

\* user_messages of _get_anthropic_response
AnthropicUserMessages(messages) == SelectSeq(messages, LAMBDA msg : msg.role # "system")

\* payload of _get_anthropic_response; has_system tells whether the "system" field is set
AnthropicPayload(c, messages) ==
    LET system_message == AnthropicSystem(messages, "") IN
    [model |-> c.model, messages |-> AnthropicUserMessages(messages),
     max_tokens |-> AnthropicMaxTokens,
     has_system |-> system_message # "", system |-> system_message]

\* the role translation of _get_google_response
GoogleRole(role) == IF role = "user" THEN "user" ELSE "model"

\* contents of _get_google_response
GoogleContents(messages) ==
    [i \in 1..Len(messages) |->
        [role |-> GoogleRole(messages[i].role), parts |-> <<[text |-> messages[i].content]>>]]

GooglePayload(c, messages) == [contents |-> GoogleContents(messages)]

GoogleUrl(c) ==
    "https://generativelanguage.googleapis.com/v1beta/models/" \o c.model
        \o ":generateContent?key=" \o c.api_key

\* prompt of _get_huggingface_response
HFPrompt(messages) ==
    Join([i \in 1..Len(messages) |-> messages[i].role \o ": " \o messages[i].content], "\n")

HFPayload(c, messages) ==
    [inputs |-> HFPrompt(messages),
     parameters |-> [max_new_tokens |-> HFMaxNewTokens, temperature |-> "0.7"]]

\* the requests.post call of each family
BuildRequest(c, messages) ==
    CASE Family(c) = "anthropic" ->
            [url |-> c.base_url, headers |-> _setup_headers(c), json |-> AnthropicPayload(c, messages)]
      [] Family(c) = "google" ->
            [url |-> GoogleUrl(c), headers |-> {<<"Content-Type", "application/json">>},
             json |-> GooglePayload(c, messages)]
      [] Family(c) = "huggingface" ->
            [url |-> c.base_url \o c.model, headers |-> _setup_headers(c),
             json |-> HFPayload(c, messages)]
      [] OTHER ->
            [url |-> c.base_url, headers |-> _setup_headers(c), json |-> OpenAIPayload(c, messages)]

-----------------------------------------------------------------------------
(* Response handling *)
(* A JSON payload is a record that says which fields are present (has_x)   *)
(* and holds the lists as sequences; str(data) is spelled out by PyStr*.   *)

Returned(text) == [raised |-> FALSE, error |-> "", message |-> "", text |-> text]
Raised(error, message) == [raised |-> TRUE, error |-> error, message |-> message, text |-> ""]
NoOutcome == [raised |-> FALSE, error |-> "", message |-> "", text |-> ""]

\* response.raise_for_status(): raises requests.HTTPError for 4xx and 5xx
raise_for_status(status) == 400 <= status /\ status < 600

PyList(strings) == "[" \o Join(strings, ", ") \o "]"

\* data["choices"][0]["message"]["content"]
OpenAIExtract(data) ==
    IF ~data.has_choices THEN Raised("KeyError", "'choices'")
    ELSE IF Len(data.choices) = 0 THEN Raised("IndexError", "list index out of range")
    ELSE IF ~data.choices[1].has_message THEN Raised("KeyError", "'message'")
    ELSE IF ~data.choices[1].has_content THEN Raised("KeyError", "'content'")
    ELSE Returned(data.choices[1].content)

\* _get_openai_compatible_response, after requests.post returned
_get_openai_compatible_response(response) ==
    IF raise_for_status(response.status) THEN Raised("HTTPError", "")
    ELSE OpenAIExtract(response.data)

\* data["content"][0]["text"]
AnthropicExtract(data) ==
    IF ~data.has_content THEN Raised("KeyError", "'content'")
    ELSE IF Len(data.content) = 0 THEN Raised("IndexError", "list index out of range")
    ELSE IF ~data.content[1].has_text THEN Raised("KeyError", "'text'")
    ELSE Returned(data.content[1].text)

\* _get_anthropic_response, after requests.post returned
_get_anthropic_response(response) ==
    IF raise_for_status(response.status) THEN Raised("HTTPError", "")
    ELSE AnthropicExtract(response.data)

\* str() of the error object of a Google payload
PyStrGoogleError(error) ==
    IF error.has_message THEN "{'message': '" \o error.message \o "'}" ELSE "{'code': 429}"

PyStrGooglePart(part) == IF part.has_text THEN "{'text': '" \o part.text \o "'}" ELSE "{}"

PyStrGoogleCandidate(c) ==
    IF ~c.has_content THEN "{'finishReason': 'SAFETY'}"
    ELSE IF ~c.has_parts THEN "{'content': {}}"
    ELSE "{'content': {'parts': "
            \o PyList([i \in 1..Len(c.parts) |-> PyStrGooglePart(c.parts[i])]) \o "}}"

\* str(data) of a Google payload
PyStrGoogle(data) ==
    "{" \o Join(
        (IF data.has_candidates
         THEN <<"'candidates': "
                 \o PyList([i \in 1..Len(data.candidates) |-> PyStrGoogleCandidate(data.candidates[i])])>>
         ELSE <<>>)
        \o (IF data.has_error THEN <<"'error': " \o PyStrGoogleError(data.error)>> ELSE <<>>),
        ", ") \o "}"

\* data["candidates"][0]["content"]["parts"][0]["text"]
GoogleExtract(data) ==
    IF ~data.has_candidates THEN Raised("KeyError", "'candidates'")
    ELSE IF Len(data.candidates) = 0 THEN Raised("IndexError", "list index out of range")
    ELSE LET c == data.candidates[1] IN
         IF ~c.has_content THEN Raised("KeyError", "'content'")
         ELSE IF ~c.has_parts THEN Raised("KeyError", "'parts'")
         ELSE IF Len(c.parts) = 0 THEN Raised("IndexError", "list index out of range")
         ELSE IF ~c.parts[1].has_text THEN Raised("KeyError", "'text'")
         ELSE Returned(c.parts[1].text)

\* the except branch of _get_google_response with the error object not looked at
GoogleFailure_generic(data) ==
    Raised("Exception", "Unexpected response format: " \o PyStrGoogle(data))

\* the except (KeyError, IndexError) branch of _get_google_response
GoogleFailure(data) ==
    IF data.has_error
    THEN Raised("Exception",
                "Google API Error: "
                    \o (IF data.error.has_message THEN data.error.message
                        ELSE PyStrGoogleError(data.error)))
    ELSE Raised("Exception", "Unexpected response format: " \o PyStrGoogle(data))

\* _get_google_response, after requests.post returned
_get_google_response(response) ==
    IF raise_for_status(response.status) THEN Raised("HTTPError", "")
    ELSE LET got == GoogleExtract(response.data) IN
         IF got.raised /\ got.error \in {"KeyError", "IndexError"} THEN GoogleFailure(response.data)
         ELSE got

\* str() of the first element of a HuggingFace list payload
PyStrHFItem(x) ==
    CASE x.kind = "dict" ->
            IF x.has_generated_text THEN "{'generated_text': '" \o x.generated_text \o "'}"
            ELSE "{'error': 'overloaded'}"
      [] x.kind = "str" -> "'" \o x.generated_text \o "'"
      [] x.kind = "int" -> "42"
      [] OTHER -> "None"

\* str(data) of a HuggingFace payload
PyStrHF(data) ==
    IF data.kind = "list" THEN PyList([i \in 1..Len(data.items) |-> PyStrHFItem(data.items[i])])
    ELSE "{'error': 'Model is loading'}"

\* `"generated_text" in data[0]`: key membership for a dict, substring test for a
\* str, TypeError for a value that is not iterable
HFHasField(x) ==
    CASE x.kind = "dict" -> [raised |-> FALSE, value |-> x.has_generated_text]
      [] x.kind = "str"  -> [raised |-> FALSE, value |-> x.has_generated_text]
      [] OTHER           -> [raised |-> TRUE, value |-> FALSE]

\* the extraction of _get_huggingface_response
HFExtract(data) ==
    IF data.kind = "list" /\ Len(data.items) > 0
    THEN LET x == data.items[1]
             found == HFHasField(x)
         IN  IF found.raised
             THEN Raised("TypeError", "argument of type is not iterable")
             ELSE IF found.value
             THEN IF x.kind = "dict" THEN Returned(x.generated_text)
                  ELSE Raised("TypeError", "string indices must be integers")
             ELSE Returned(PyStrHF(data))
    ELSE Returned(PyStrHF(data))

\* _get_huggingface_response that reads the body whatever the status
_get_huggingface_response_nostatus(response) == HFExtract(response.data)

\* _get_huggingface_response, after requests.post returned
_get_huggingface_response(response) ==
    IF raise_for_status(response.status) THEN Raised("HTTPError", "")
    ELSE HFExtract(response.data)

\* get_response: what the call returns or raises, given what requests.post returned
get_response(c, response) ==
    CASE Family(c) = "anthropic"   -> _get_anthropic_response(response)
      [] Family(c) = "google"      -> _get_google_response(response)
      [] Family(c) = "huggingface" -> _get_huggingface_response(response)
      [] OTHER                     -> _get_openai_compatible_response(response)

-----------------------------------------------------------------------------
(* The HTTP responses the model draws from *)

\* reply texts of the providers
ReplyTexts ==
    {"Here is a longer answer: it runs well past one hundred characters, as the replies of a language model usually do."}

\* HTTP status codes of the responses
Statuses == {200, 404, 500}

OpenAIPayloads ==
    {[has_choices |-> FALSE, choices |-> <<>>],
     [has_choices |-> TRUE, choices |-> <<>>],
     [has_choices |-> TRUE, choices |-> <<[has_message |-> FALSE, has_content |-> FALSE, content |-> ""]>>],
     [has_choices |-> TRUE, choices |-> <<[has_message |-> TRUE, has_content |-> FALSE, content |-> ""]>>]}
    \cup {[has_choices |-> TRUE,
           choices |-> <<[has_message |-> TRUE, has_content |-> TRUE, content |-> t]>>] : t \in ReplyTexts}

AnthropicPayloads ==
    {[has_content |-> FALSE, content |-> <<>>],
     [has_content |-> TRUE, content |-> <<>>],
     [has_content |-> TRUE, content |-> <<[has_text |-> FALSE, text |-> ""]>>]}
    \cup {[has_content |-> TRUE, content |-> <<[has_text |-> TRUE, text |-> t]>>] : t \in ReplyTexts}

GoogleCandidateLists ==
    {<<>>,
     <<[has_content |-> FALSE, has_parts |-> FALSE, parts |-> <<>>]>>,
     <<[has_content |-> TRUE, has_parts |-> FALSE, parts |-> <<>>]>>,
     <<[has_content |-> TRUE, has_parts |-> TRUE, parts |-> <<>>]>>,
     <<[has_content |-> TRUE, has_parts |-> TRUE, parts |-> <<[has_text |-> FALSE, text |-> ""]>>]>>}
    \cup {<<[has_content |-> TRUE, has_parts |-> TRUE, parts |-> <<[has_text |-> TRUE, text |-> t]>>]>> :
            t \in ReplyTexts}

GoogleErrors ==
    {[has_message |-> TRUE, message |-> "quota exceeded"], [has_message |-> FALSE, message |-> ""]}

NoGoogleError == [has_message |-> FALSE, message |-> ""]

\* JSON objects with an optional candidates list and an optional error object
GooglePayloads ==
    {[has_candidates |-> FALSE, candidates |-> <<>>, has_error |-> FALSE, error |-> NoGoogleError]}
    \cup {[has_candidates |-> FALSE, candidates |-> <<>>, has_error |-> TRUE, error |-> e] : e \in GoogleErrors}
    \cup {[has_candidates |-> TRUE, candidates |-> cs, has_error |-> FALSE, error |-> NoGoogleError] :
            cs \in GoogleCandidateLists}
    \cup {[has_candidates |-> TRUE, candidates |-> cs, has_error |-> TRUE, error |-> e] :
            cs \in GoogleCandidateLists, e \in GoogleErrors}

HFItems ==
    {[kind |-> "dict", has_generated_text |-> FALSE, generated_text |-> ""],
     [kind |-> "str", has_generated_text |-> FALSE, generated_text |-> "loading"],
     [kind |-> "int", has_generated_text |-> FALSE, generated_text |-> ""],
     [kind |-> "null", has_generated_text |-> FALSE, generated_text |-> ""]}
    \cup {[kind |-> "dict", has_generated_text |-> TRUE, generated_text |-> t] : t \in ReplyTexts}

\* a JSON object, the empty list, or a list of one element
HFPayloads ==
    {[kind |-> "dict", items |-> <<>>], [kind |-> "list", items |-> <<>>]}
    \cup {[kind |-> "list", items |-> <<x>>] : x \in HFItems}

Payloads(family) ==
    CASE family = "anthropic"   -> AnthropicPayloads
      [] family = "google"      -> GooglePayloads
      [] family = "huggingface" -> HFPayloads
      [] OTHER                  -> OpenAIPayloads

Responses(family) == {[status |-> st, data |-> d] : st \in Statuses, d \in Payloads(family)}

\* a payload of the family that carries the reply `text`
FullPayload(family, text) ==
    CASE family = "anthropic" -> [has_content |-> TRUE, content |-> <<[has_text |-> TRUE, text |-> text]>>]
      [] family = "google" ->
            [has_candidates |-> TRUE,
             candidates |-> <<[has_content |-> TRUE, has_parts |-> TRUE,
                               parts |-> <<[has_text |-> TRUE, text |-> text]>>]>>,
             has_error |-> FALSE, error |-> NoGoogleError]
      [] family = "huggingface" ->
            [kind |-> "list",
             items |-> <<[kind |-> "dict", has_generated_text |-> TRUE, generated_text |-> text]>>]
      [] OTHER ->
            [has_choices |-> TRUE,
             choices |-> <<[has_message |-> TRUE, has_content |-> TRUE, content |-> text]>>]

\* a payload of the family without the reply
BarePayload(family) ==
    CASE family = "anthropic" -> [has_content |-> FALSE, content |-> <<>>]
      [] family = "google" ->
            [has_candidates |-> FALSE, candidates |-> <<>>, has_error |-> FALSE, error |-> NoGoogleError]
      [] family = "huggingface" -> [kind |-> "dict", items |-> <<>>]
      [] OTHER -> [has_choices |-> FALSE, choices |-> <<>>]

\* the responses a session receives: a reply, a server error, a payload without the reply
SessionResponses(family) ==
    {[status |-> 200, data |-> FullPayload(family, t)] : t \in ReplyTexts}
    \cup {[status |-> 500, data |-> BarePayload(family)], [status |-> 200, data |-> BarePayload(family)]}

\* calls: the number of requests.post calls made for the line
NoHttp ==
    [sent |-> FALSE, calls |-> 0, by |-> NoClient, messages |-> <<>>, request |-> <<>>,
     response |-> <<>>]

\* get_response that posts the request again when the status is a failure
Exchange_retry(c, messages, response) ==
    [sent |-> TRUE, calls |-> IF raise_for_status(response.status) THEN 2 ELSE 1, by |-> c,
     messages |-> messages, request |-> BuildRequest(c, messages), response |-> response]

\* one call of client.get_response(messages) that receives `response`: every
\* adapter posts the request once and returns or raises
Exchange(c, messages, response) ==
    [sent |-> TRUE, calls |-> 1, by |-> c, messages |-> messages,
     request |-> BuildRequest(c, messages), response |-> response]

-----------------------------------------------------------------------------
(* What the user types *)

\* credentials typed at the getpass prompt
ApiKeyInputs == {"", "  ", "k2"}

\* model names typed at the model prompt ("" is Enter alone)
ModelInputs == {"", "Cancel"}

\* free text typed at the chat prompt: a line that starts with a blank before the
\* command prefix, and two canned phrases
ChatLines == {" /exit", " Hello ", "thanks"}

\* command lines typed at the chat prompt
CommandLines ==
    {"/help", "/exit", "/EXIT now", "/clear", "/joke", "/history", "/addapi", "/switch",
     "/deleteapi", "/quit", "/ help", "/exits"}

RECURSIVE LStrip(_)
\* str.lstrip() for blanks
LStrip(text) ==
    IF Len(text) > 0 /\ SubSeq(text, 1, 1) = " " THEN LStrip(SubSeq(text, 2, Len(text))) ELSE text

RECURSIVE RStrip(_)
\* str.rstrip() for blanks
RStrip(text) ==
    IF Len(text) > 0 /\ SubSeq(text, Len(text), Len(text)) = " "
    THEN RStrip(SubSeq(text, 1, Len(text) - 1))
    ELSE text

\* str.strip()
Strip(text) == RStrip(LStrip(text))

UpperCase == <<"A", "B", "C", "D", "E", "F", "G", "H", "I", "J", "K", "L", "M",
               "N", "O", "P", "Q", "R", "S", "T", "U", "V", "W", "X", "Y", "Z">>
LowerCase == <<"a", "b", "c", "d", "e", "f", "g", "h", "i", "j", "k", "l", "m",
               "n", "o", "p", "q", "r", "s", "t", "u", "v", "w", "x", "y", "z">>

\* str.lower() of one character
LowerChar(ch) ==
    IF \E n \in 1..Len(UpperCase) : UpperCase[n] = ch
    THEN LowerCase[CHOOSE n \in 1..Len(UpperCase) : UpperCase[n] = ch]
    ELSE ch

RECURSIVE Lower(_)
\* str.lower()
Lower(text) ==
    IF Len(text) = 0 THEN ""
    ELSE LowerChar(SubSeq(text, 1, 1)) \o Lower(SubSeq(text, 2, Len(text)))

RECURSIVE UpToBlank(_)
\* the characters before the first blank
UpToBlank(text) ==
    IF Len(text) = 0 \/ SubSeq(text, 1, 1) = " " THEN ""
    ELSE SubSeq(text, 1, 1) \o UpToBlank(SubSeq(text, 2, Len(text)))

\* command.split()[0]
FirstToken(command) == UpToBlank(LStrip(command))

\* Prompt.ask(..., default=default): Enter alone gives the default
PromptAsk(typed, default) == IF Strip(typed) = "" THEN default ELSE Strip(typed)

\* keys of CUSTOM_REPLIES
CUSTOM_REPLIES ==
    {"hello", "hi", "hey", "help", "bye", "goodbye", "thanks", "thank you", "ok", "okay"}

\* the canned-reply test on the text as typed
CannedLines_exact == ChatLines \cap CUSTOM_REPLIES

\* main, lines 120-121: the chat lines with user_input.lower().strip() in CUSTOM_REPLIES
CannedLines == {user_input \in ChatLines : Strip(Lower(user_input)) \in CUSTOM_REPLIES}

-----------------------------------------------------------------------------
(* The session: startup *)

\* kind: the operation; line: the text typed; cancel: the cancelled path taken ("" when
\* none); provider, api_key, model: what was chosen and stored; wrote: the store was
\* written; activated: the active markers were set; was_active: the deleted provider
\* was the active one; reloaded, resolved: the reload ran and found a provider;
\* shown: the rows of the table /history printed
NoLast ==
    [kind |-> "", line |-> "", cancel |-> "", provider |-> "", api_key |-> "", model |-> "",
     wrote |-> FALSE, activated |-> FALSE, was_active |-> FALSE, reloaded |-> FALSE,
     resolved |-> FALSE, shown |-> <<>>]

\* .env files a start can find: per offered provider nothing, an empty credential
\* line, a credential alone, or a credential with a model; and an optional active provider
FileOf(stored, active) ==
    [k \in Keys |->
        IF k = ACTIVE_PROVIDER THEN active
        ELSE IF k = ACTIVE_PROVIDER_NAME
        THEN (IF active = NoVal THEN NoVal ELSE LLM_PROVIDERS[active].name)
        ELSE IF \E id \in Offered : k = LLM_PROVIDERS[id].env_key
        THEN LET id == CHOOSE id \in Offered : k = LLM_PROVIDERS[id].env_key IN
             CASE stored[id] \in {"full", "keyonly"} -> "k1" [] stored[id] = "empty" -> "" [] OTHER -> NoVal
        ELSE IF \E id \in Offered : k = ModelKey(LLM_PROVIDERS[id].env_key)
        THEN LET id == CHOOSE id \in Offered : k = ModelKey(LLM_PROVIDERS[id].env_key) IN
             IF stored[id] = "full" THEN "m1" ELSE NoVal
        ELSE NoVal]

\* the first provider's lines take every form, the others are absent or complete
InitFiles ==
    {FileOf(stored, active) :
        stored \in {st \in [Offered -> {"none", "empty", "keyonly", "full"}] :
                        \A id \in Offered \ {ProviderIds[1]} : st[id] \in {"none", "full"}},
        active \in {NoVal} \cup Offered}

\* environments the process can inherit: nothing, or the first provider's credential exported
InitEnvirons == {Unset, [Unset EXCEPT ![LLM_PROVIDERS[ProviderIds[1]].env_key] = "k0"]}

Init ==
    /\ pc = "start"
    /\ env_file_exists \in BOOLEAN
    /\ env_file \in (IF env_file_exists THEN InitFiles ELSE {Unset})
    /\ os_environ \in InitEnvirons
    /\ client = NoClient
    /\ chat_history = <<>>
    /\ http = NoHttp
    /\ outcome = NoOutcome
    /\ last = NoLast

\* initialize_client
initialize_client(environ) ==
    LET provider_config == get_active_provider(environ) IN
    IF provider_config.valid THEN UniversalLLMClient(provider_config) ELSE NoClient

\* EnvManager.__init__ and check_env_exists: the file is loaded without override
EnvAtStart == load_dotenv(env_file_exists, env_file, os_environ, FALSE)

\* main, lines 46-62, when check_env_exists() holds
StartConfigured ==
    /\ pc = "start"
    /\ check_env_exists(env_file_exists, EnvAtStart)
    /\ os_environ' = EnvAtStart
    /\ client' = initialize_client(EnvAtStart)
    /\ pc' = IF client'.present THEN "loop" ELSE "abort"
    /\ last' = [NoLast EXCEPT !.kind = "start", !.resolved = client'.present]
    /\ UNCHANGED <<env_file_exists, env_file, chat_history, http, outcome>>

\* the writes of setup_first_run, lines 168-185
SetupWrites(file, choice, api_key, model_name) ==
    LET provider == LLM_PROVIDERS[choice] IN
    set_key(set_key(set_key(set_key(file, provider.env_key, api_key),
                            ModelKey(provider.env_key), model_name),
                    ACTIVE_PROVIDER, choice),
            ACTIVE_PROVIDER_NAME, provider.name)

\* main, line 56: load_dotenv() after setup, without override
ReloadAfterSetup(file, environ) == load_dotenv(TRUE, file, environ, FALSE)

\* setup_first_run returned False: main exits
SetupFailed(path) ==
    /\ pc' = "abort"
    /\ os_environ' = EnvAtStart
    /\ last' = [NoLast EXCEPT !.kind = "setup", !.cancel = path]
    /\ UNCHANGED <<env_file_exists, env_file, client>>

\* main, lines 46-62, when check_env_exists() fails: setup_first_run, reload, initialize_client
FirstRunSetup ==
    /\ pc = "start"
    /\ ~check_env_exists(env_file_exists, EnvAtStart)
    /\ \E choice \in Offered \cup {"0"} :
        IF choice = "0" THEN SetupFailed("menu")
        ELSE \E typed_key \in ApiKeyInputs :
            IF ~Truthy(Strip(typed_key)) THEN SetupFailed("empty_key")
            ELSE \E typed_model \in ModelInputs :
                LET model_name == PromptAsk(typed_model, LLM_PROVIDERS[choice].model) IN
                IF Lower(model_name) = "cancel" THEN SetupFailed("model")
                ELSE LET file2 == SetupWrites(env_file, choice, typed_key, model_name)
                         env2 == ReloadAfterSetup(file2, EnvAtStart)
                         c == initialize_client(env2)
                     IN  /\ env_file_exists' = TRUE
                         /\ env_file' = file2
                         /\ os_environ' = env2
                         /\ client' = c
                         /\ pc' = IF c.present THEN "loop" ELSE "abort"
                         /\ last' = [NoLast EXCEPT !.kind = "setup", !.provider = choice,
                                                   !.api_key = typed_key, !.model = model_name,
                                                   !.wrote = TRUE, !.activated = TRUE,
                                                   !.reloaded = TRUE, !.resolved = c.present]
    /\ UNCHANGED <<chat_history, http, outcome>>

-----------------------------------------------------------------------------
(* The session: the chat loop, one action per kind of input line *)

\* command.split()[0] of every command line
FirstTokens == [command \in CommandLines |-> FirstToken(command)]

\* command.split()[0].lower() of every command line
LoweredTokens == [command \in CommandLines |-> Lower(FirstToken(command))]

\* handle_command's cmd without the lower-casing
Cmd_nolower(command) == FirstTokens[command]

\* handle_command's cmd
Cmd(command) == LoweredTokens[command]

\* main, lines 96-99: `client` is assigned only when new_client is not None
KeptClient(old) == old

\* main, line 95: load_dotenv(override=True)
ReloadEnviron(file, environ) == load_dotenv(env_file_exists, file, environ, TRUE)

\* main, lines 96-99
ReloadClient(file, environ, old) ==
    LET new_client == initialize_client(ReloadEnviron(file, environ)) IN
    IF new_client.present THEN new_client ELSE KeptClient(old)

\* the "reload" signal of /addapi, /switch and /deleteapi, after the store became `file`
Reload(file, op) ==
    /\ env_file' = file
    /\ os_environ' = ReloadEnviron(file, os_environ)
    /\ client' = ReloadClient(file, os_environ, client)
    /\ last' = [op EXCEPT !.reloaded = TRUE,
                          !.resolved = get_active_provider(ReloadEnviron(file, os_environ)).valid]
    /\ http' = NoHttp
    /\ outcome' = NoOutcome
    /\ UNCHANGED <<pc, env_file_exists, chat_history>>

\* a command that only prints: /help, /joke, and the unknown commands
PrintOnly(cmds, kind) ==
    /\ pc = "loop"
    /\ \E command \in CommandLines :
        /\ Cmd(command) \in cmds
        /\ last' = [NoLast EXCEPT !.kind = kind, !.line = command]
    /\ http' = NoHttp
    /\ outcome' = NoOutcome
    /\ UNCHANGED <<pc, env_file_exists, env_file, os_environ, client, chat_history>>

CmdHelp == PrintOnly({"/help"}, "help")

CmdJoke == PrintOnly({"/joke"}, "joke")

\* role.capitalize()
Capitalize(role) ==
    CASE role = "user" -> "User"
      [] role = "assistant" -> "Assistant"
      [] role = "system" -> "System"
      [] OTHER -> role

\* show_history with the cut after 100 characters
Truncate_at100(content) ==
    IF Len(content) > 100 THEN SubSeq(content, 1, 100) \o "..." ELSE content

\* show_history, lines 118-120: the body as displayed
Truncate(content) ==
    IF Len(content) > 100 THEN SubSeq(content, 1, 97) \o "..." ELSE content

\* show_history: the rows of the table, none when the transcript is empty
show_history(history) ==
    [i \in 1..Len(history) |->
        [role |-> Capitalize(history[i].role), content |-> Truncate(history[i].content)]]

\* /history with the cut bodies written back into the messages
CmdHistory_mutating ==
    /\ pc = "loop"
    /\ \E command \in CommandLines :
        /\ Cmd(command) = "/history"
        /\ last' = [NoLast EXCEPT !.kind = "history", !.line = command,
                                  !.shown = show_history(chat_history)]
    /\ chat_history' = [i \in 1..Len(chat_history) |->
                            [chat_history[i] EXCEPT !.content = Truncate(@)]]
    /\ http' = NoHttp
    /\ outcome' = NoOutcome
    /\ UNCHANGED <<pc, env_file_exists, env_file, os_environ, client>>

\* /history: show_history(console, chat_history)
CmdHistory ==
    /\ pc = "loop"
    /\ \E command \in CommandLines :
        /\ Cmd(command) = "/history"
        /\ last' = [NoLast EXCEPT !.kind = "history", !.line = command,
                                  !.shown = show_history(chat_history)]
    /\ http' = NoHttp
    /\ outcome' = NoOutcome
    /\ UNCHANGED <<pc, env_file_exists, env_file, os_environ, client, chat_history>>

KnownCommands ==
    {"/help", "/exit", "/clear", "/joke", "/history", "/addapi", "/switch", "/deleteapi"}

CmdUnknown == PrintOnly({Cmd(command) : command \in CommandLines} \ KnownCommands, "unknown")

\* /exit: handle_command returns "exit" and main breaks
CmdExit ==
    /\ pc = "loop"
    /\ \E command \in CommandLines :
        /\ Cmd(command) = "/exit"
        /\ last' = [NoLast EXCEPT !.kind = "exit", !.line = command]
    /\ pc' = "done"
    /\ http' = NoHttp
    /\ outcome' = NoOutcome
    /\ UNCHANGED <<env_file_exists, env_file, os_environ, client, chat_history>>

\* /clear: chat_history.clear()
CmdClear ==
    /\ pc = "loop"
    /\ \E command \in CommandLines :
        /\ Cmd(command) = "/clear"
        /\ last' = [NoLast EXCEPT !.kind = "clear", !.line = command]
    /\ chat_history' = <<>>
    /\ http' = NoHttp
    /\ outcome' = NoOutcome
    /\ UNCHANGED <<pc, env_file_exists, env_file, os_environ, client>>

\* add_api_key's writes with the active markers set whatever the answer to the switch question
AddWrites_activating(file, choice, api_key, model_name, switch) ==
    LET provider == LLM_PROVIDERS[choice] IN
    set_key(set_key(set_key(set_key(file, provider.env_key, api_key),
                            ModelKey(provider.env_key), model_name),
                    ACTIVE_PROVIDER, choice),
            ACTIVE_PROVIDER_NAME, provider.name)

\* the file after add_api_key's writes, lines 275-298
AddWrites(file, choice, api_key, model_name, switch) ==
    LET provider == LLM_PROVIDERS[choice]
        saved == set_key(set_key(file, provider.env_key, api_key),
                         ModelKey(provider.env_key), model_name)
    IN  IF switch
        THEN set_key(set_key(saved, ACTIVE_PROVIDER, choice), ACTIVE_PROVIDER_NAME, provider.name)
        ELSE saved

\* /addapi: add_api_key, then the reload
CmdAddApi ==
    /\ pc = "loop"
    /\ LET op == [NoLast EXCEPT !.kind = "addapi", !.line = "/addapi"] IN
       \E choice \in Offered \cup {"0"} :
        IF choice = "0" THEN Reload(env_file, [op EXCEPT !.cancel = "menu"])
        ELSE
        LET provider == LLM_PROVIDERS[choice]
            existing_key == os_environ[provider.env_key]
        IN
        \E overwrite \in (IF Truthy(existing_key) THEN BOOLEAN ELSE {TRUE}) :
        IF ~overwrite THEN Reload(env_file, [op EXCEPT !.cancel = "overwrite"])
        ELSE
        \E typed_key \in ApiKeyInputs :
        IF ~Truthy(Strip(typed_key)) THEN Reload(env_file, [op EXCEPT !.cancel = "empty_key"])
        ELSE
        \E typed_model \in ModelInputs :
        LET model_name == PromptAsk(typed_model, provider.model) IN
        IF Lower(model_name) = "cancel" THEN Reload(env_file, [op EXCEPT !.cancel = "model"])
        ELSE
        \E switch \in BOOLEAN :
            Reload(AddWrites(env_file, choice, typed_key, model_name, switch),
                   [op EXCEPT !.provider = choice, !.api_key = typed_key, !.model = model_name,
                              !.wrote = TRUE, !.activated = switch])

\* /switch: switch_provider, then the reload
CmdSwitch ==
    /\ pc = "loop"
    /\ LET saved_providers == _get_saved_providers(os_environ)
           op == [NoLast EXCEPT !.kind = "switch", !.line = "/switch"]
       IN  IF Len(saved_providers) = 0
           THEN Reload(env_file, [op EXCEPT !.cancel = "nothing_saved"])
           ELSE \E choice \in 0..Len(saved_providers) :
                   IF choice = 0
                   THEN Reload(env_file, [op EXCEPT !.cancel = "menu"])
                   ELSE LET provider_id == saved_providers[choice] IN
                        Reload(set_key(set_key(env_file, ACTIVE_PROVIDER, provider_id),
                                       ACTIVE_PROVIDER_NAME, LLM_PROVIDERS[provider_id].name),
                               [op EXCEPT !.provider = provider_id, !.wrote = TRUE, !.activated = TRUE])

\* the file after delete_api_key's unset_key calls, lines 458-469
DeleteWrites(file, provider_id, active_provider) ==
    LET provider == LLM_PROVIDERS[provider_id]
        removed == unset_key(unset_key(file, provider.env_key), ModelKey(provider.env_key))
    IN  IF provider_id = active_provider
        THEN unset_key(unset_key(removed, ACTIVE_PROVIDER), ACTIVE_PROVIDER_NAME)
        ELSE removed

\* /deleteapi: delete_api_key, then the reload
CmdDeleteApi ==
    /\ pc = "loop"
    /\ LET saved_providers == _get_saved_providers(os_environ)
           active_provider == os_environ[ACTIVE_PROVIDER]
           op == [NoLast EXCEPT !.kind = "deleteapi", !.line = "/deleteapi"]
       IN  IF Len(saved_providers) = 0
           THEN Reload(env_file, [op EXCEPT !.cancel = "nothing_saved"])
           ELSE \E choice \in 0..Len(saved_providers) :
                   IF choice = 0
                   THEN Reload(env_file, [op EXCEPT !.cancel = "menu"])
                   ELSE \E confirm \in BOOLEAN :
                        LET provider_id == saved_providers[choice] IN
                        IF ~confirm
                        THEN Reload(env_file, [op EXCEPT !.cancel = "confirm"])
                        ELSE Reload(DeleteWrites(env_file, provider_id, active_provider),
                                    [op EXCEPT !.provider = provider_id, !.wrote = TRUE,
                                               !.was_active = (provider_id = active_provider)])

\* a line that is a key of CUSTOM_REPLIES: the canned reply is printed
CannedReply ==
    /\ pc = "loop"
    /\ \E user_input \in ChatLines :
        /\ user_input \in CannedLines
        /\ last' = [NoLast EXCEPT !.kind = "canned", !.line = user_input]
    /\ http' = NoHttp
    /\ outcome' = NoOutcome
    /\ UNCHANGED <<pc, env_file_exists, env_file, os_environ, client, chat_history>>

\* the except branch of the chat turn without the pop
RollBack_none(history) == history

\* main, lines 153-155: the failed user message is removed
RollBack(history) ==
    IF Len(history) > 0 /\ history[Len(history)].role = "user"
    THEN SubSeq(history, 1, Len(history) - 1)
    ELSE history

\* any other line: the chat turn of main, lines 126-155
ChatTurn ==
    /\ pc = "loop"
    /\ \E user_input \in ChatLines :
        /\ user_input \notin CannedLines
        /\ last' = [NoLast EXCEPT !.kind = "chat", !.line = user_input]
        /\ IF ~client.present
           THEN /\ http' = NoHttp
                /\ outcome' = NoOutcome
                /\ UNCHANGED chat_history
           ELSE \E response \in SessionResponses(Family(client)) :
                   LET sent_history == Append(chat_history, [role |-> "user", content |-> user_input])
                       got == get_response(client, response)
                   IN  /\ got.raised \/ Len(chat_history) < 2 * MaxTurns
                       /\ http' = Exchange(client, sent_history, response)
                       /\ outcome' = got
                       /\ chat_history' =
                              IF got.raised THEN RollBack(sent_history)
                              ELSE Append(sent_history, [role |-> "assistant", content |-> got.text])
    /\ UNCHANGED <<pc, env_file_exists, env_file, os_environ, client>>

Next ==
    \/ StartConfigured
    \/ FirstRunSetup
    \/ CmdHelp
    \/ CmdJoke
    \/ CmdHistory
    \/ CmdUnknown
    \/ CmdExit
    \/ CmdClear
    \/ CmdAddApi
    \/ CmdSwitch
    \/ CmdDeleteApi
    \/ CannedReply
    \/ ChatTurn

Spec == Init /\ [][Next]_vars

-----------------------------------------------------------------------------
(* The adapter alone: get_response on every provider, transcript and response *)

\* message contents of the transcripts
Contents == {"a", "b"}

Messages == [role : {"user", "assistant", "system"}, content : Contents]

RECURSIVE SeqsUpTo(_, _)
\* the sequences over S of length at most n
SeqsUpTo(S, n) ==
    IF n = 0 THEN {<<>>}
    ELSE LET shorter == SeqsUpTo(S, n - 1) IN
         shorter \cup {Append(q, x) : q \in {r \in shorter : Len(r) = n - 1}, x \in S}

Transcripts == SeqsUpTo(Messages, MaxLen)

\* the provider config get_active_provider builds for `id` with credential "k1" and no saved model
ConfigOf(id) ==
    get_active_provider([Unset EXCEPT ![ACTIVE_PROVIDER] = id, ![LLM_PROVIDERS[id].env_key] = "k1"])

AdapterInit ==
    /\ pc = "adapter"
    /\ env_file_exists = FALSE
    /\ env_file = Unset
    /\ os_environ = Unset
    /\ client \in {UniversalLLMClient(ConfigOf(id)) : id \in DOMAIN LLM_PROVIDERS}
    /\ chat_history \in Transcripts
    /\ http = NoHttp
    /\ outcome = NoOutcome
    /\ last = NoLast

\* client.get_response(chat_history): one requests.post, then the extraction
AdapterCall ==
    /\ pc = "adapter"
    /\ \E response \in Responses(Family(client)) :
        /\ http' = Exchange(client, chat_history, response)
        /\ outcome' = get_response(client, response)
    /\ pc' = "returned"
    /\ UNCHANGED <<env_file_exists, env_file, os_environ, client, chat_history, last>>

AdapterNext == AdapterCall

AdapterSpec == AdapterInit /\ [][AdapterNext]_vars

-----------------------------------------------------------------------------
(* /history alone: show_history on transcripts with bodies of every length *)

Ten == "1234567890"

\* 160 characters
Ruler == Ten \o Ten \o Ten \o Ten \o Ten \o Ten \o Ten \o Ten
            \o Ten \o Ten \o Ten \o Ten \o Ten \o Ten \o Ten \o Ten

\* a message body of n characters: "1234567890123..."
Body(n) == SubSeq(Ruler, 1, n)

\* one completed turn: a user line of n characters and a reply of n or of MaxBody + 1 - n characters
LongTranscripts ==
    {<<[role |-> "user", content |-> Body(n)],
       [role |-> "assistant", content |-> Body(IF swap THEN MaxBody + 1 - n ELSE n)]>> :
        n \in 1..MaxBody, swap \in BOOLEAN}

\* the chat loop of a session configured for the first provider, waiting for input
HistoryInit ==
    /\ pc = "loop"
    /\ env_file_exists = TRUE
    /\ env_file = FileOf([id \in Offered |-> IF id = ProviderIds[1] THEN "full" ELSE "none"],
                         ProviderIds[1])
    /\ os_environ = load_dotenv(TRUE, env_file, Unset, FALSE)
    /\ client = initialize_client(os_environ)
    /\ chat_history \in LongTranscripts
    /\ http = NoHttp
    /\ outcome = NoOutcome
    /\ last = NoLast

HistoryNext == CmdHistory

HistorySpec == HistoryInit /\ [][HistoryNext]_vars

-----------------------------------------------------------------------------
(* Claims about the session (Spec) *)

\* what get_active_provider() returns in the current state
ActiveNow == get_active_provider(os_environ)

\* C1: after a confirmed /deleteapi of the active provider and the reload, both
\* active markers are gone from the file and get_active_provider() returns None.
C1_DeleteActiveClears ==
    (last.kind = "deleteapi" /\ last.wrote /\ last.was_active /\ last.reloaded)
        => /\ env_file[ACTIVE_PROVIDER] = NoVal
           /\ env_file[ACTIVE_PROVIDER_NAME] = NoVal
           /\ ~ActiveNow.valid

\* C2: after first-run setup or an /addapi with the switch accepted stored a
\* credential and a model and made the provider active, get_active_provider()
\* returns a config with exactly that credential and model.
C2_RoundTrip ==
    (last.kind \in {"setup", "addapi"} /\ last.wrote /\ last.activated)
        => /\ ActiveNow.valid
           /\ ActiveNow.id = last.provider
           /\ ActiveNow.api_key = last.api_key
           /\ ActiveNow.model = last.model

\* C3: a chat turn whose adapter call raised leaves the transcript as it was
\* before the turn (the transcript sent was the old one plus the user line,
\* and no assistant entry was added), and the loop goes on.
C3_FailedTurnRollsBack ==
    (last.kind = "chat" /\ http.sent /\ outcome.raised)
        => /\ http.messages = Append(chat_history, [role |-> "user", content |-> last.line])
           /\ pc = "loop"

\* a turn that failed with an HTTP error status on a transcript that already
\* holds one completed turn
C3_Witness ==
    /\ last.kind = "chat" /\ http.sent /\ outcome.raised
    /\ Len(chat_history) = 2
    /\ outcome.error = "HTTPError"

\* C4: while the last reload resolved no provider, a free-text line makes no
\* network call.
C4_ChatDisabledWithoutProvider ==
    (pc = "loop" /\ last.kind = "chat" /\ ~ActiveNow.valid) => ~http.sent

\* C5: after /addapi, /switch or /deleteapi left ACTIVE_PROVIDER = P in the
\* file, the client has P's name, the credential stored for P and the model
\* stored for P, or P's default model when none is stored.
C5_ClientMatchesStore ==
    (last.kind \in {"addapi", "switch", "deleteapi"} /\ last.reloaded
        /\ env_file[ACTIVE_PROVIDER] \in DOMAIN LLM_PROVIDERS)
        => LET P == LLM_PROVIDERS[env_file[ACTIVE_PROVIDER]]
               stored_model == env_file[ModelKey(P.env_key)]
           IN  /\ client.present
               /\ client.provider_name = P.name
               /\ client.api_key = env_file[P.env_key]
               /\ client.model = IF Truthy(stored_model) THEN stored_model ELSE P.model

-----------------------------------------------------------------------------
(* Claims about the adapter (AdapterSpec) *)

\* the call returned or raised for a client of `family`
Called(family) == pc = "returned" /\ http.sent /\ Family(client) = family

\* C6: in every family a response with a non-success status makes get_response
\* raise the HTTP error and return no text, whatever the body holds.
C6_FailedStatusRaises ==
    (pc = "returned" /\ http.sent /\ ~(200 <= http.response.status /\ http.response.status < 300))
        => outcome = Raised("HTTPError", "")

\* a 500 whose body the HuggingFace fallback would have turned into a reply,
\* and a 500 whose body carries a Google error object
C6_Witness ==
    \/ /\ Called("huggingface") /\ http.response.status = 500
       /\ http.response.data.kind = "dict" /\ outcome.raised
    \/ /\ Called("google") /\ http.response.status = 500
       /\ http.response.data.has_error /\ outcome.raised

\* the Google payload lacks candidates[0].content.parts[0].text
LacksPath(data) == GoogleExtract(data).raised

\* what the provider-reported failure for `data` is
ProviderReported(data) ==
    Raised("Exception",
           "Google API Error: "
               \o (IF data.error.has_message THEN data.error.message ELSE "{'code': 429}"))

\* C7: for a Google payload with a success status that lacks the reply path:
\* with an error object the failure raised is the provider-reported one with the
\* object's message; with neither candidates nor error it is the 'unexpected
\* response format' failure; and no payload of one kind gets the failure of a
\* payload of the other kind.
C7_GoogleErrorsDistinct ==
    (Called("google") /\ http.response.status = 200 /\ LacksPath(http.response.data))
        => LET data == http.response.data IN
           /\ data.has_error => outcome = ProviderReported(data)
           /\ (~data.has_candidates /\ ~data.has_error)
                 => outcome = Raised("Exception", "Unexpected response format: {}")
           /\ \A other \in GooglePayloads :
                 (LacksPath(other) /\ other.has_error # data.has_error
                     /\ (other.has_error \/ ~other.has_candidates)
                     /\ (data.has_error \/ ~data.has_candidates))
                    => _get_google_response([status |-> 200, data |-> other]) # outcome

\* an error object beside an empty candidates list, reported with its message
C7_Witness ==
    /\ Called("google") /\ http.response.status = 200
    /\ http.response.data.has_candidates /\ http.response.data.candidates = <<>>
    /\ http.response.data.has_error /\ http.response.data.error.has_message
    /\ outcome.message = "Google API Error: quota exceeded"

\* C8: for a HuggingFace payload with a success status the reply is
\* generated_text when the payload is a non-empty list whose first element is an
\* object with that field, and the stringified payload in every other case;
\* nothing is raised.
C8_HuggingFaceNeverRaises ==
    (Called("huggingface") /\ http.response.status = 200)
        => LET data == http.response.data
               has_field == /\ data.kind = "list" /\ Len(data.items) > 0
                            /\ data.items[1].kind = "dict" /\ data.items[1].has_generated_text
           IN  outcome = IF has_field THEN Returned(data.items[1].generated_text)
                         ELSE Returned(PyStrHF(data))

\* C9: the Google request's contents has one entry per message of the
\* transcript, in order, with the content as its single text part and the role
\* 'model' for 'assistant' and 'user' for every other role.
C9_GoogleContents ==
    Called("google")
        => LET contents == http.request.json.contents IN
           /\ Len(contents) = Len(chat_history)
           /\ \A i \in 1..Len(chat_history) :
                /\ contents[i].parts = <<[text |-> chat_history[i].content]>>
                /\ contents[i].role = IF chat_history[i].role = "assistant" THEN "model" ELSE "user"

\* the system field carries `content`; the field holds the content of one
\* message, so it carries a content exactly when it is that content
CarriedIn(content, body) == body.has_system /\ body.system = content

\* C10: the Anthropic request's messages is the subsequence of the non-system
\* messages, the content of every system message is in the system field, and
\* max_tokens is 4096.
C10_AnthropicSystem ==
    Called("anthropic")
        => LET body == http.request.json IN
           /\ body.messages = SelectSeq(chat_history, LAMBDA msg : msg.role # "system")
           /\ \A i \in 1..Len(body.messages) : body.messages[i].role # "system"
           /\ \A i \in 1..Len(chat_history) :
                chat_history[i].role = "system"
                    => CarriedIn(chat_history[i].content, body)
           /\ body.max_tokens = 4096

\* the header names of the request sent
HeaderNames == {h[1] : h \in http.request.headers}

\* no header of the request sent holds the client's credential
NoCredentialHeader ==
    \A h \in http.request.headers : h[2] \notin {client.api_key, "Bearer " \o client.api_key}

-----------------------------------------------------------------------------
(* Claims about /history (HistorySpec) and the command dispatcher (Spec) *)

\* C12 as stated: /history shows a body longer than 100 characters as its
\* first 100 characters followed by the marker "...", and a body of 100
\* characters or fewer in full.
C12_First100ThenMarker ==
    last.kind = "history"
        => /\ Len(last.shown) = Len(chat_history)
           /\ \A i \in 1..Len(chat_history) :
                LET body == chat_history[i].content
                    row == last.shown[i].content
                IN  IF Len(body) > 100
                    THEN /\ Len(row) = 103
                         /\ SubSeq(row, 1, 100) = SubSeq(body, 1, 100)
                         /\ SubSeq(row, 101, 103) = "..."
                    ELSE row = body

\* C12 as amended: /history shows a body longer than 100 characters as its
\* first 97 characters followed by the marker "...", 100 characters in all, and
\* a body of 100 characters or fewer in full.
C12_First97ThenMarker ==
    last.kind = "history"
        => /\ Len(last.shown) = Len(chat_history)
           /\ \A i \in 1..Len(chat_history) :
                LET body == chat_history[i].content
                    row == last.shown[i].content
                IN  IF Len(body) > 100
                    THEN /\ Len(row) = 100
                         /\ SubSeq(row, 1, 97) = SubSeq(body, 1, 97)
                         /\ SubSeq(row, 98, 100) = "..."
                    ELSE row = body

\* /history showed a transcript with a body of 150 characters cut to 100 and a
\* body of one character in full
C12_Witness ==
    /\ last.kind = "history"
    /\ Len(chat_history[1].content) = 150 /\ Len(last.shown[1].content) = 100
    /\ Len(chat_history[2].content) = 1 /\ last.shown[2].content = "1"

\* the input line just handled was a command other than /clear
NonClearCommand ==
    last' # last /\ last'.kind \in {"help", "joke", "history", "unknown", "exit",
                                     "addapi", "switch", "deleteapi"}

\* C13: a command line whose first token is not /clear leaves the transcript
\* as it was, /history included; an unrecognized command also leaves the
\* configuration file as it was and signals neither exit nor reload.
C13_CommandsKeepTranscript ==
    [][/\ NonClearCommand => chat_history' = chat_history
       /\ (last' # last /\ last'.kind = "unknown")
            => /\ env_file' = env_file /\ env_file_exists' = env_file_exists
               /\ pc' = "loop" /\ ~last'.reloaded
               /\ os_environ' = os_environ /\ client' = client]_vars

\* /history cut a reply for display and the transcript still holds it whole;
\* and an unrecognized command was handled with a transcript in place
C13_Witness ==
    /\ Len(chat_history) = 2
    /\ \/ /\ last.kind = "history"
          /\ Len(last.shown[2].content) = 100 /\ Len(chat_history[2].content) > 100
       \/ last.kind = "unknown" /\ last.line = "/quit"

-----------------------------------------------------------------------------
(* Claims about startup and the persisted configuration (Spec) *)

\* the configuration file exists and, once it is loaded, get_active_provider() resolves
Configured ==
    /\ env_file_exists
    /\ get_active_provider(load_dotenv(env_file_exists, env_file, os_environ, FALSE)).valid

\* C14: at startup, first-run setup runs exactly when the system is not
\* configured (the file exists and get_active_provider() resolves); the chat
\* loop is entered only with a client built from the resolved active provider,
\* and otherwise the process has exited: nothing is read or sent after that.
C14_StartupGate ==
    [][/\ pc = "start"
            => /\ (last'.kind = "setup") <=> ~Configured
               /\ (last'.kind = "start") <=> Configured
               /\ pc' \in {"loop", "abort"}
               /\ pc' = "loop"
                    => /\ get_active_provider(os_environ').valid
                       /\ client' = UniversalLLMClient(get_active_provider(os_environ'))
               /\ chat_history' = <<>> /\ ~http'.sent
       /\ pc = "abort" => UNCHANGED vars]_vars

\* setup stored a provider but no active provider resolved afterwards, and the
\* process exited; or setup ran on a file that exists and the loop was entered
C14_Witness ==
    \/ pc = "abort" /\ last.kind = "setup" /\ last.wrote
    \/ pc = "loop" /\ last.kind = "setup" /\ env_file[ACTIVE_PROVIDER] = "2" /\ client.present

\* the providers with a non-empty credential in the configuration file, in registry order
StoredProviders == SelectSeq(ProviderIds, LAMBDA id : Truthy(env_file[LLM_PROVIDERS[id].env_key]))

\* C15: whenever the loop waits for input, the menu /switch or /deleteapi would
\* build lists exactly the providers whose credential is stored non-empty in
\* the configuration file, in registry order; a provider deleted by /deleteapi
\* is not listed any more.
C15_MenuListsStored ==
    pc = "loop"
        => /\ _get_saved_providers(os_environ) = StoredProviders
           /\ (last.kind = "deleteapi" /\ last.wrote)
                => \A n \in 1..Len(_get_saved_providers(os_environ)) :
                      _get_saved_providers(os_environ)[n] # last.provider

-----------------------------------------------------------------------------
(* Claims about the chat loop (Spec) *)

\* the line starts with the command prefix and its first token is /exit in any case
IsExitLine(line) ==
    /\ Len(line) > 0 /\ SubSeq(line, 1, 1) = "/"
    /\ Lower(FirstToken(line)) = "/exit"

IsCannedLine(line) ==
    /\ ~(Len(line) > 0 /\ SubSeq(line, 1, 1) = "/")
    /\ Strip(Lower(line)) \in CUSTOM_REPLIES

\* C17: reading a free-text line whose trimmed, lower-cased form is a canned
\* phrase sends no request and leaves the transcript as it was.
C17_CannedNoCall ==
    [][(pc = "loop" /\ last' # last /\ IsCannedLine(last'.line))
          => (~http'.sent /\ chat_history' = chat_history)]_vars

\* ' Hello ' was answered from the table with a turn already in the transcript
C17_Witness ==
    /\ last.kind = "canned" /\ last.line = " Hello "
    /\ ~http.sent /\ Len(chat_history) = 2 /\ client.present

\* C18: a line causes at most one HTTP request, a command line or a canned
\* phrase none; when the loop waits for the next line the request of the last
\* line has returned a reply or raised, and a request that failed was made once.
C18_OneRequestPerLine ==
    /\ http.calls <= 1
    /\ http.sent <=> (http.calls = 1)
    /\ last.kind # "chat" => http.calls = 0
    /\ (pc \in {"loop", "done"} /\ http.sent)
            => outcome = get_response(http.by, http.response)
    /\ outcome.raised => (http.calls = 1 /\ pc = "loop")

\* a request that failed with status 500, made once, and the loop waiting again
C18_Witness ==
    /\ pc = "loop" /\ last.kind = "chat"
    /\ http.calls = 1 /\ http.response.status = 500 /\ outcome.raised

\* the messages alternate user, assistant, starting with user
Alternates(history) ==
    \A i \in 1..Len(history) :
        history[i].role = (IF i % 2 = 1 THEN "user" ELSE "assistant")

\* C19: whenever the loop waits for input the transcript has even length and
\* alternates user, assistant from a user message on; and a transcript handed
\* to the adapter is such a transcript followed by one user message.
C19_TranscriptAlternates ==
    /\ pc \in {"loop", "done"}
            => (Len(chat_history) % 2 = 0 /\ Alternates(chat_history))
    /\ http.sent
            => /\ Len(http.messages) % 2 = 1
               /\ Alternates(http.messages)
               /\ http.messages[Len(http.messages)].content = last.line

\* the loop waits again after a failed turn that followed two completed ones
C19_Witness ==
    /\ pc = "loop" /\ last.kind = "chat" /\ outcome.raised
    /\ Len(chat_history) = 4 /\ Len(http.messages) = 5

\* when the file has ACTIVE_PROVIDER, it names a registry id whose credential
\* is in the file and non-empty, and ACTIVE_PROVIDER_NAME is its display name
NoDangling(file) ==
    file[ACTIVE_PROVIDER] # NoVal
        => /\ file[ACTIVE_PROVIDER] \in DOMAIN LLM_PROVIDERS
           /\ Truthy(file[LLM_PROVIDERS[file[ACTIVE_PROVIDER]].env_key])
           /\ file[ACTIVE_PROVIDER_NAME] = LLM_PROVIDERS[file[ACTIVE_PROVIDER]].name

\* C20: within a session, no first-run setup, /addapi, /switch or /deleteapi
\* turns a configuration file without a dangling active reference into one
\* with a dangling active reference.
C20_NoDanglingActive ==
    [][NoDangling(env_file) => NoDangling(env_file')]_vars

\* the step handled /addapi, /switch or /deleteapi
StoreCommand == last'.kind \in {"addapi", "switch", "deleteapi"}

\* the paths that end a store command without an operation
CancelledPaths == {"menu", "overwrite", "empty_key", "model", "confirm", "nothing_saved"}

\* C21: every cancelled path of /addapi, /switch and /deleteapi leaves the
\* configuration file as it was; /addapi with the switch declined writes the
\* provider's credential and model keys only and leaves both active markers as
\* they were; the transcript is unchanged by all three commands.
C21_CancelledPathsKeepStore ==
    [][StoreCommand
          => /\ chat_history' = chat_history
             /\ (last'.cancel \in CancelledPaths \/ ~last'.wrote)
                  => (env_file' = env_file /\ env_file_exists' = env_file_exists)
             /\ (last'.kind = "addapi" /\ last'.wrote /\ ~last'.activated)
                  => LET env_key == LLM_PROVIDERS[last'.provider].env_key IN
                     /\ env_file'[env_key] = last'.api_key
                     /\ env_file'[ModelKey(env_key)] = last'.model
                     /\ \A k \in Keys \ {env_key, ModelKey(env_key)} : env_file'[k] = env_file[k]
                     /\ env_file'[ACTIVE_PROVIDER] = env_file[ACTIVE_PROVIDER]
                     /\ env_file'[ACTIVE_PROVIDER_NAME] = env_file[ACTIVE_PROVIDER_NAME]]_vars

\* /addapi was abandoned at the model prompt by typing 'Cancel', after the
\* credential was typed, with a provider active in the file and a turn in the
\* transcript
C21_Witness ==
    /\ last.kind = "addapi" /\ last.cancel = "model" /\ ~last.wrote /\ last.reloaded
    /\ env_file[ACTIVE_PROVIDER] \in Offered
    /\ Len(chat_history) = 2

====
